---- MODULE Spec2Model ----
(***************************************************************************)
(* License lifecycle of the Sorvide backend.                               *)
(*                                                                         *)
(* The repository holds two deployments of the same backend:               *)
(*   "server"  the monolith src/server.js (src/unnamed/part_000 and        *)
(*             part_001 are copies with the same handlers), which keeps    *)
(*             the in-process deviceMappings cache;                        *)
(*   "routes"  the later split into src/routes/LicenseRoutes.js,           *)
(*             LicenseService (src/unnamed/part_002), StripeService and    *)
(*             src/models/License.js.                                      *)
(* A behaviour is a run of one of them; variant is fixed by Init.          *)
(*                                                                         *)
(* Every handler is an async function.  A handler is cut at its awaits of  *)
(* the record store and of the email provider: one step is the execution   *)
(* of such a call together with the stretch of the handler that follows    *)
(* it, up to the next call or the answer.  Steps of different requests     *)
(* interleave.  The admin routes of src/routes/admin.js run with the       *)
(* "routes" deployment; admin requests carry the admin token.              *)
(*                                                                         *)
(* The record store is mongoose: findOne returns a copy of a document,     *)
(* save() of a fetched document writes only the paths whose value was      *)
(* changed since the fetch and fails when the document is no longer in     *)
(* the collection, save() of a new document inserts it and fails on a      *)
(* duplicate of the unique licenseKey.  A write may also fail because the  *)
(* store cannot be reached.  A handler keeps of a fetched document the     *)
(* paths it reads or may change.                                           *)
(*                                                                         *)
(* Time is counted in days.  A run has one of five scopes, fixed by Init:  *)
(* requests overlapping on one license over MaxTime days, requests one at  *)
(* a time on two licenses within a day, or requests one at a time on one   *)
(* license over TickDays days, with a store whose writes may fail, an      *)
(* admin who edits and deletes licenses, and a renewal event that the      *)
(* payment provider delivers any number of times.  In a fourth scope the   *)
(* deployment runs without ADMIN_TOKEN in its environment, in a fifth      *)
(* requests come one at a time on one license over MaxTime days.  Devices  *)
(* look their license up in the scopes with one request at a time.         *)
(***************************************************************************)
EXTENDS Integers, FiniteSets, Sequences, TLC

VARIABLES
    variant,         \* which deployment runs
    scope,           \* the slots, keys and checkout sessions of this run
    now,             \* the clock read by new Date()
    store,           \* the License collection: licenseKey -> document
    deviceMappings,  \* server.js: Map deviceId -> licenseKey
    proc,            \* the requests in flight, one per slot
    hist,            \* history: why each license was last deactivated
    successes,       \* history: valid:true answers given per license
    winners,         \* history: devices answered valid:true on reading the
                     \* license unbound, since it was last released
    minted,          \* history: licenses ever created with each key
    renewed          \* history: licenses that the renewal event has extended, in
                     \* a run whose renewal events are deliveries of one event

vars ==
    <<variant, scope, now, store, deviceMappings, proc, hist, successes, winners, minted,
      renewed>>

-----------------------------------------------------------------------------
(* Bounds of the model *)

MaxTime == 60
TickDays == 30
MaxCount == 2
MaxIssues == 2

Variants == {"server", "routes"}
Keys == {"k1", "k2"}
Devices == {"d1", "d2"}
Sessions == {"cs1", "cs2"}
Procs == {"p1", "p2"}

\* null and undefined
NULL == "null"

Concurrent ==
    [procs |-> {"p1", "p2"}, keys |-> {"k1"}, sessions |-> {"cs1"}, days |-> MaxTime,
     faults |-> FALSE, admin |-> {}, redelivery |-> FALSE,
     secret |-> "s3cret", lookups |-> FALSE,
     validations |-> MaxCount]
OneAtATime ==
    [procs |-> {"p1"}, keys |-> {"k1", "k2"}, sessions |-> {"cs1", "cs2"}, days |-> 0,
     faults |-> FALSE, admin |-> {}, redelivery |-> FALSE,
     secret |-> "s3cret", lookups |-> TRUE,
     validations |-> MaxCount]
Faulty ==
    [procs |-> {"p1"}, keys |-> {"k1"}, sessions |-> {"cs1"}, days |-> TickDays,
     faults |-> TRUE, admin |-> {"update", "delete", "deactivate"}, redelivery |-> TRUE,
     secret |-> "s3cret", lookups |-> TRUE,
     validations |-> MaxCount]
Unconfigured ==
    [procs |-> {"p1"}, keys |-> {"k1"}, sessions |-> {"cs1"}, days |-> 0,
     faults |-> FALSE, admin |-> {"update", "delete"}, redelivery |-> FALSE,
     secret |-> NULL, lookups |-> FALSE,
     validations |-> MaxCount]
Ageing ==
    [procs |-> {"p1"}, keys |-> {"k1"}, sessions |-> {"cs1"}, days |-> MaxTime,
     faults |-> FALSE, admin |-> {"deactivate"}, redelivery |-> FALSE,
     secret |-> "s3cret", lookups |-> TRUE,
     validations |-> MaxCount]
Scopes == {Concurrent, OneAtATime, Faulty, Unconfigured, Ageing}

\* requests overlapping on one license within a day, one more of them
\* validations that succeed
Counting == [Concurrent EXCEPT !.days = 0, !.validations = MaxCount + 1]

-----------------------------------------------------------------------------
(* Values *)

\* lastValidated of a license that was never validated
NoTime == -1

\* expiresAt.setDate(expiresAt.getDate() + 30)
LicenseDays == 30

\* expiresAt.setMonth(expiresAt.getMonth() + durationMonths): a month in days
MonthDays == 30

\* the deviceName a device sends with its requests (d2 sends none)
DeviceNameOf(d) == IF d = "d1" THEN "Laptop" ELSE NULL

\* a checkout session in subscription mode carries its customer and subscription
\* (a license issued by an admin has neither)
CustomerOf(s) == IF s = NULL THEN NULL ELSE IF s = "cs1" THEN "cus1" ELSE "cus2"
SubscriptionOf(s) == IF s = NULL THEN NULL ELSE IF s = "cs1" THEN "sub1" ELSE "sub2"

Statuses == {"active", "canceled", "unpaid", "past_due"}
SubscriptionEvents == {"customer.subscription.updated", "customer.subscription.deleted"}
PeriodEnds == {t \in TickDays..MaxTime : t % TickDays = 0}

\* findOne that matched nothing
NoDoc == [licenseKey |-> NULL]
Found(doc) == doc.licenseKey # NULL

-----------------------------------------------------------------------------
(* The record store *)

\* new License({...}) of server.js with the schema defaults
NewLicense(k, s, expires) ==
    [id |-> minted[k] + 1,
     licenseKey |-> k,
     stripeCustomerId |-> CustomerOf(s),
     stripeSubscriptionId |-> SubscriptionOf(s),
     stripeSessionId |-> s,
     plan |-> "monthly",
     createdAt |-> now,
     expiresAt |-> expires,
     isActive |-> TRUE,
     deviceId |-> NULL,
     deviceName |-> NULL,
     lastValidated |-> NoTime,
     validationCount |-> 0]

\* new License({...}) of LicenseService.createLicenseForCustomer: the model of
\* src/models/License.js has no stripeSessionId
NewServiceLicense(k, s, type, expires) ==
    [NewLicense(k, s, expires) EXCEPT !.plan = type, !.stripeSessionId = NULL]

\* save() of a new document: the unique index on licenseKey rejects a duplicate
InsertDoc(st, doc) ==
    IF doc.licenseKey \in DOMAIN st THEN st ELSE st @@ (doc.licenseKey :> doc)

\* save() that writes every path of the document it holds
SaveWholeDoc(st, orig, doc) ==
    IF doc.licenseKey \in DOMAIN st
    THEN [st EXCEPT ![doc.licenseKey] =
            [f \in DOMAIN @ |-> IF f \in DOMAIN doc THEN doc[f] ELSE @[f]]]
    ELSE st

\* save() that writes nothing
SaveNoPath(st, orig, doc) == st

\* save() of a document fetched as orig and changed to doc: only the modified
\* paths are written; a document deleted meanwhile is not written back
SaveDoc(st, orig, doc) ==
    IF doc.licenseKey \in DOMAIN st
    THEN [st EXCEPT ![doc.licenseKey] =
            [f \in DOMAIN @ |->
                IF f \in DOMAIN doc /\ (f \notin DOMAIN orig \/ doc[f] # orig[f])
                THEN doc[f] ELSE @[f]]]
    ELSE st

\* the paths of a fetched document that each handler reads or may change;
\* a path set to new Date() is always modified and is not kept
ValidatePaths == {"id", "licenseKey", "isActive", "expiresAt", "deviceId", "deviceName",
                  "validationCount"}
InvoicePaths == {"id", "licenseKey"}
SubscriptionPaths == {"id", "licenseKey", "isActive", "expiresAt"}

\* the documents findOne may return for the keys matching a filter
FindOne(matching, paths) ==
    IF matching = {} THEN {NoDoc}
    ELSE {[f \in paths |-> store[k][f]] : k \in matching}

-----------------------------------------------------------------------------
(* Requests *)

Idle ==
    [op |-> "idle", pc |-> "idle", key |-> NULL, dev |-> NULL, snap |-> NoDoc,
     old |-> NoDoc, session |-> NULL, status |-> NULL, periodEnd |-> 0,
     res |-> NULL, at |-> 0, stamp |-> 0, wrote |-> FALSE, seen |-> NULL,
     err |-> NULL, mail |-> NULL, type |-> NULL, todo |-> 0, sig |-> NULL,
     daysLeft |-> 0, token |-> NULL, known |-> FALSE, body |-> NULL]

\* an answer is sent before anything else happens
Answering == \E p \in Procs : proc[p].pc = "done"

\* a request enters the first free slot
Free(p) ==
    /\ p \in scope.procs
    /\ proc[p].op = "idle"
    /\ p = "p2" => proc["p1"].op # "idle"

\* the slots a request that arrives at deployment v may take
Arriving(v) ==
    IF variant = v /\ ~Answering THEN {p \in scope.procs : Free(p)} ELSE {}

\* the x-admin-token header of a request: the configured secret, another
\* value, or none
Tokens == {"s3cret", "guess", NULL}

\* adminAuth of admin.js and the check of POST /create-license:
\* adminToken === process.env.ADMIN_TOKEN
AdminAuth(token) == token = scope.secret

\* the check of the admin routes of server.js:
\* !(!adminToken || adminToken !== process.env.ADMIN_TOKEN)
ServerAdminAuth(token) == token # NULL /\ token = scope.secret

\* a validate request that is on its way to answer valid: true
Succeeding(r) ==
    /\ r.op = "validate"
    /\ \/ r.pc = "save"
       \/ /\ r.pc \in {"findOld", "saveOld"}
          /\ ~(r.snap.deviceId # NULL /\ r.snap.deviceId # r.dev)

\* at most scope.validations validations succeed in a run (MaxCount, or one
\* more)
MayValidate(r) ==
    Succeeding(r) =>
        successes["k1"] + successes["k2"]
          + Cardinality({p \in Procs : Succeeding(proc[p])}) < scope.validations

\* generateLicenseKey(): a key in use or, of the unused keys, the first; a key
\* comes up for a new license at most MaxIssues times
GeneratedKeys ==
    LET unused == {k \in scope.keys : k \notin DOMAIN store /\ minted[k] < MaxIssues}
    IN  DOMAIN store \cup (IF "k1" \in unused THEN {"k1"} ELSE unused)

Init ==
    /\ variant \in Variants
    /\ scope \in Scopes
    /\ now = 0
    /\ store = << >>
    /\ deviceMappings = [d \in Devices |-> NULL]
    /\ proc = [p \in Procs |-> Idle]
    /\ hist = [k \in Keys |-> "none"]
    /\ successes = [k \in Keys |-> 0]
    /\ winners = [k \in Keys |-> {}]
    /\ minted = [k \in Keys |-> 0]
    /\ renewed = [k \in Keys |-> FALSE]

Tick ==
    /\ ~Answering
    /\ now + TickDays <= scope.days
    /\ now' = now + TickDays
    /\ UNCHANGED <<variant, scope, store, deviceMappings, proc, hist, successes, winners,
                   minted, renewed>>

\* the answer has been sent: the request leaves, and the request behind it, if
\* any, moves up to the first slot
Return(p) ==
    /\ proc[p].pc = "done"
    /\ proc' = IF p = "p1"
               THEN [q \in Procs |-> IF q = "p1" THEN proc["p2"] ELSE Idle]
               ELSE [proc EXCEPT ![p] = Idle]
    /\ UNCHANGED <<variant, scope, now, store, deviceMappings, hist, successes, winners,
                   minted, renewed>>

\* one step of request p: its slot becomes r, the store st, the cache dm
Effect(p, r, st, dm) ==
    /\ ~Answering
    /\ proc' = [proc EXCEPT ![p] =
                  [r EXCEPT !.wrote = r.wrote \/ st # store \/ dm # deviceMappings]]
    /\ store' = st
    /\ deviceMappings' = dm
    /\ minted' = [k \in Keys |->
                    IF k \in DOMAIN st \ DOMAIN store THEN minted[k] + 1 ELSE minted[k]]
    /\ renewed' = [k \in Keys |->
                     /\ scope.redelivery
                     /\ k \in DOMAIN st
                     /\ \/ renewed[k]
                        \/ /\ r.op = "invoice"
                           /\ r.key = k
                           /\ proc[p].pc = "save"
                           /\ r.err = NULL]
    /\ UNCHANGED <<variant, scope, now>>

\* a step that leaves the histories as they are
Plain == UNCHANGED <<hist, successes, winners>>

\* the slot of a request that answers with result
Answer(r, result) == [r EXCEPT !.pc = "done", !.res = result]

\* the slot of an admin request that is turned away
Denied(op, token, result) ==
    Answer([Idle EXCEPT !.op = op, !.token = token], result)

\* whether the store can be reached by a write
StoreUp == IF scope.faults THEN BOOLEAN ELSE {TRUE}

\* save() of a new document on a collection without unique index
InsertErrorNoIndex(k, up) ==
    IF ~up THEN "StoreUnavailable" ELSE NULL

\* the error save() of a new document with key k throws, NULL if it is stored;
\* up: the store can be reached
InsertError(k, up) ==
    IF ~up THEN "StoreUnavailable"
    ELSE IF k \in DOMAIN store THEN "DuplicateKey"
    ELSE NULL

\* the error save() of the fetched document doc throws, NULL if it is written
SaveError(doc, up) ==
    IF ~up THEN "StoreUnavailable"
    ELSE IF doc.licenseKey \notin DOMAIN store \/ store[doc.licenseKey].id # doc.id
    THEN "DocumentNotFound"
    ELSE NULL

\* the store after a write that leaves st, or that threw e
Written(st, e) == IF e = NULL THEN st ELSE store

\* the slot of a request whose handler caught e and answers with result
Caught(r, e, result) == Answer([r EXCEPT !.err = e], result)

-----------------------------------------------------------------------------
(* POST /api/validate-license of server.js *)

\* expiry that starts on the day of expiresAt
ExpiredFrom(doc) == now >= doc.expiresAt

\* a handler without expiry check
ExpiredNever(doc) == FALSE

\* if (new Date() > new Date(license.expiresAt))
Expired(doc) == now > doc.expiresAt

\* if (license.deviceId && license.deviceId !== deviceId)
DeviceLimit(doc, deviceId) == doc.deviceId # NULL /\ doc.deviceId # deviceId

\* the license with device info, lastValidated and validationCount updated
Activated(doc, deviceId, deviceName, stamp) ==
    [f \in DOMAIN doc \cup {"lastValidated"} |->
        CASE f = "deviceId" -> deviceId
          [] f = "deviceName" -> IF deviceName # NULL THEN deviceName ELSE "Chrome Extension"
          [] f = "lastValidated" -> stamp
          [] f = "validationCount" -> doc.validationCount + 1
          [] OTHER -> doc[f]]

\* Math.ceil((expiresAt - now) / (1000 * 60 * 60 * 24)) of the license the
\* handler holds; times are whole days
DaysLeft(doc) == doc.expiresAt - now

\* the device limit check; the update of the license is sent to the store
CheckDeviceLimit(r) ==
    IF DeviceLimit(r.snap, r.dev)
    THEN Answer(r, "DeviceConflict")
    ELSE [r EXCEPT !.pc = "save", !.stamp = now]

\* the request arrives, License.findOne({ licenseKey }) is executed and the
\* fetched license is checked
ValidateLicense(p, licenseKey, deviceId) ==
    /\ variant = "server"
    /\ Free(p)
    /\ Plain
    /\ IF deviceId = NULL
       THEN Effect(p, Answer([Idle EXCEPT !.op = "validate", !.key = licenseKey],
                             "BadRequest"),
                   store, deviceMappings)
       ELSE \E license \in FindOne({k \in DOMAIN store : k = licenseKey}, ValidatePaths) :
              LET r == [Idle EXCEPT !.op = "validate", !.key = licenseKey,
                                    !.dev = deviceId, !.snap = license,
                                    !.seen = hist[licenseKey], !.at = now,
                                    !.known = licenseKey \in DOMAIN store]
                  existingLicenseKey == deviceMappings[deviceId]
                  checked ==
                      IF ~Found(license) THEN Answer(r, "NotFound")
                      ELSE IF ~license.isActive THEN Answer(r, "Inactive")
                      ELSE IF Expired(license) THEN [r EXCEPT !.pc = "saveExpired"]
                      ELSE IF existingLicenseKey # NULL /\ existingLicenseKey # licenseKey
                      THEN [r EXCEPT !.pc = "findOld",
                                     !.old = [licenseKey |-> existingLicenseKey]]
                      ELSE CheckDeviceLimit(r)
              IN  /\ MayValidate(checked)
                  /\ Effect(p, checked, store, deviceMappings)

\* license.isActive = false; await license.save(); the answer is Expired
ValidateLicenseSaveExpired(p, up) ==
    LET r == proc[p]
        e == SaveError(r.snap, up)
    IN  /\ variant = "server"
        /\ r.op = "validate"
        /\ r.pc = "saveExpired"
        /\ IF e # NULL
           THEN Effect(p, Caught(r, e, "ServerError"), store, deviceMappings) /\ Plain
           ELSE /\ Effect(p, Answer(r, "Expired"),
                          SaveDoc(store, r.snap, [r.snap EXCEPT !.isActive = FALSE]),
                          deviceMappings)
                /\ hist' = [hist EXCEPT ![r.key] = "expired"]
                /\ UNCHANGED <<successes, winners>>

\* License.findOne({ licenseKey: existingLicenseKey }): the license the device
\* cache names is released when it is bound to this device; otherwise the device
\* limit is checked
ValidateLicenseFindOld(p) ==
    LET r == proc[p]
    IN  /\ variant = "server"
        /\ r.op = "validate"
        /\ r.pc = "findOld"
        /\ Plain
        /\ \E oldLicense \in FindOne({k \in DOMAIN store : k = r.old.licenseKey},
                                     {"id", "licenseKey", "deviceId", "deviceName"}) :
              Effect(p,
                     IF Found(oldLicense) /\ oldLicense.deviceId = r.dev
                     THEN [r EXCEPT !.pc = "saveOld", !.old = oldLicense]
                     ELSE CheckDeviceLimit(r),
                     store, deviceMappings)

\* oldLicense.deviceId = null; oldLicense.deviceName = null;
\* await oldLicense.save(); then the device limit is checked
ValidateLicenseSaveOld(p, up) ==
    LET r == proc[p]
        e == SaveError(r.old, up)
    IN  /\ variant = "server"
        /\ r.op = "validate"
        /\ r.pc = "saveOld"
        /\ IF e # NULL
           THEN Effect(p, Caught(r, e, "ServerError"), store, deviceMappings) /\ Plain
           ELSE /\ Effect(p, CheckDeviceLimit(r),
                          SaveDoc(store, r.old,
                                  [r.old EXCEPT !.deviceId = NULL, !.deviceName = NULL]),
                          deviceMappings)
                /\ winners' = [winners EXCEPT ![r.old.licenseKey] = {}]
                /\ UNCHANGED <<hist, successes>>

\* await license.save(); deviceMappings.set(deviceId, licenseKey); valid: true
ValidateLicenseSave(p, up) ==
    LET r == proc[p]
        e == SaveError(r.snap, up)
    IN  /\ variant = "server"
        /\ r.op = "validate"
        /\ r.pc = "save"
        /\ IF e # NULL
           THEN Effect(p, Caught(r, e, "ServerError"), store, deviceMappings) /\ Plain
           ELSE /\ Effect(p, Answer([r EXCEPT !.daysLeft = DaysLeft(r.snap)], "Valid"),
                          SaveDoc(store, r.snap,
                                  Activated(r.snap, r.dev, DeviceNameOf(r.dev), r.stamp)),
                          [deviceMappings EXCEPT ![r.dev] = r.key])
                /\ successes' = [successes EXCEPT ![r.key] = @ + 1]
                /\ winners' = IF r.snap.deviceId = NULL
                              THEN [winners EXCEPT ![r.key] = @ \cup {r.dev}]
                              ELSE winners
                /\ UNCHANGED hist

-----------------------------------------------------------------------------
(* POST /validate-license of LicenseRoutes.js: LicenseService.validateLicenseKey *)

\* if (license.deviceId && license.deviceId !== deviceId && deviceId)
AlreadyActivated(doc, deviceId) ==
    doc.deviceId # NULL /\ doc.deviceId # deviceId /\ deviceId # NULL

\* the license as validateLicenseKey saves it
Validated(doc, deviceId, deviceName, stamp) ==
    LET bind == deviceId # NULL /\ doc.deviceId = NULL
    IN  [f \in DOMAIN doc \cup {"lastValidated"} |->
            CASE f = "deviceId" /\ bind -> deviceId
              [] f = "deviceName" /\ bind ->
                    IF deviceName # NULL THEN deviceName ELSE "Unknown Device"
              [] f = "lastValidated" -> stamp
              [] f = "validationCount" -> doc.validationCount + 1
              [] OTHER -> doc[f]]

\* the request arrives, License.findOne({ licenseKey, isActive: true }) is
\* executed and the fetched license is checked
ValidateLicenseKey(p, licenseKey, deviceId) ==
    /\ variant = "routes"
    /\ Free(p)
    /\ Plain
    /\ \E license \in FindOne({k \in DOMAIN store : k = licenseKey /\ store[k].isActive},
                              ValidatePaths) :
          LET r == [Idle EXCEPT !.op = "validate", !.key = licenseKey,
                                !.dev = deviceId, !.snap = license,
                                !.seen = hist[licenseKey], !.at = now,
                                !.known = licenseKey \in DOMAIN store]
              checked ==
                  IF ~Found(license) THEN Answer(r, "NotFoundOrInactive")
                  ELSE IF Expired(license) THEN [r EXCEPT !.pc = "saveExpired"]
                  ELSE IF AlreadyActivated(license, deviceId)
                  THEN Answer(r, "DeviceConflict")
                  ELSE [r EXCEPT !.pc = "save", !.stamp = now]
          IN  /\ MayValidate(checked)
              /\ Effect(p, checked, store, deviceMappings)

\* license.isActive = false; await license.save(); the answer is Expired; an
\* error is caught and answered as a server error
ValidateLicenseKeySaveExpired(p, up) ==
    LET r == proc[p]
        e == SaveError(r.snap, up)
    IN  /\ variant = "routes"
        /\ r.op = "validate"
        /\ r.pc = "saveExpired"
        /\ IF e # NULL
           THEN Effect(p, Caught(r, e, "ServerError"), store, deviceMappings) /\ Plain
           ELSE /\ Effect(p, Answer(r, "Expired"),
                          SaveDoc(store, r.snap, [r.snap EXCEPT !.isActive = FALSE]),
                          deviceMappings)
                /\ hist' = [hist EXCEPT ![r.key] = "expired"]
                /\ UNCHANGED <<successes, winners>>

\* await license.save(); valid: true
ValidateLicenseKeySave(p, up) ==
    LET r == proc[p]
        e == SaveError(r.snap, up)
    IN  /\ variant = "routes"
        /\ r.op = "validate"
        /\ r.pc = "save"
        /\ IF e # NULL
           THEN Effect(p, Caught(r, e, "ServerError"), store, deviceMappings) /\ Plain
           ELSE /\ Effect(p, Answer([r EXCEPT !.daysLeft = DaysLeft(r.snap)], "Valid"),
                          SaveDoc(store, r.snap,
                                  Validated(r.snap, r.dev, DeviceNameOf(r.dev), r.stamp)),
                          deviceMappings)
                /\ successes' = [successes EXCEPT ![r.key] = @ + 1]
                /\ winners' = IF r.snap.deviceId = NULL /\ r.dev # NULL
                              THEN [winners EXCEPT ![r.key] = @ \cup {r.dev}]
                              ELSE winners
                /\ UNCHANGED hist

-----------------------------------------------------------------------------
(* The middleware a webhook request passes before its handler runs *)

\* registration in which express.json() comes before the webhook route
JsonFirstLayers ==
    <<"cors", "express.json", "express.urlencoded", "express.raw", "handler">>

\* app.post('/api/webhook', express.raw(...), handler) is registered first;
\* cors, express.json() and express.urlencoded() are registered after it
ServerLayers ==
    <<"express.raw", "handler", "cors", "express.json", "express.urlencoded">>

\* what the application that mounts the router of LicenseRoutes.js registers
\* before it: no body parser
MountLayers == <<"cors">>

\* router.post('/stripe-webhook', express.raw(...), handler)
RoutesLayers == MountLayers \o <<"express.raw", "handler">>

\* req.body after one middleware: a body parser reads the stream of an
\* application/json request unless an earlier parser has read it;
\* express.raw leaves the bytes, express.json an object
Parsed(middleware, body) ==
    IF body # "stream" THEN body
    ELSE IF middleware = "express.raw" THEN "raw"
    ELSE IF middleware = "express.json" THEN "parsed"
    ELSE body

\* req.body as the handler of the route receives it: the layers run in the
\* order of their registration up to the handler, which ends the request
RECURSIVE BodyAtHandler(_, _)
BodyAtHandler(layers, body) ==
    IF layers = << >> THEN NULL
    ELSE IF Head(layers) = "handler" THEN body
    ELSE BodyAtHandler(Tail(layers), Parsed(Head(layers), body))

\* the payload constructEvent(req.body, sig, secret) is given
WebhookBody ==
    BodyAtHandler(IF variant = "server" THEN ServerLayers ELSE RoutesLayers, "stream")

-----------------------------------------------------------------------------
(* POST /api/webhook of server.js *)

\* the stripe-signature header of a webhook request: of the payment provider,
\* of somebody else, or none
Signatures == {"valid", "forged", NULL}

\* a verification that accepts every request
ConstructEventUnverified(signature) == TRUE

\* stripe.webhooks.constructEvent(req.body, sig, secret) returns the event
\* (it throws otherwise)
ConstructEvent(signature) == signature = "valid"

\* the webhook request whose signature is not accepted: it is answered 400
\* before the event is looked at
Rejected(signature) ==
    Answer([Idle EXCEPT !.op = "webhook", !.sig = signature, !.body = WebhookBody], "InvalidSignature")

\* the request after await license.save() of a new license: the email is sent
\* next; an error e of save() is caught and answered with failed
Issued(r, e, failed) ==
    IF e # NULL
    THEN Caught(r, e, failed)
    ELSE [r EXCEPT !.pc = "email", !.mail = "pending"]

\* an email step whose failure fails the request
EmailedOrFailed(r, delivered) ==
    IF delivered
    THEN Answer([r EXCEPT !.mail = "sent"],
                IF r.op = "payment" THEN "received" ELSE "created")
    ELSE Caught([r EXCEPT !.mail = "failed"], "EmailFailed", "ServerError")

\* the request after the email provider has answered
Emailed(r, delivered) ==
    Answer([r EXCEPT !.mail = IF delivered THEN "sent" ELSE "failed"],
           IF r.op = "payment" THEN "received" ELSE "created")

\* handleSuccessfulPayment: a license is created for every delivery of
\* checkout.session.completed; an error of save() is caught and logged
HandleSuccessfulPayment(p, signature, session, licenseKey, up) ==
    /\ variant = "server"
    /\ Free(p)
    /\ session \in scope.sessions
    /\ licenseKey \in GeneratedKeys
    /\ Plain
    /\ IF ~ConstructEvent(signature)
       THEN Effect(p, Rejected(signature), store, deviceMappings)
       ELSE Effect(p,
                   Issued([Idle EXCEPT !.op = "payment", !.sig = signature, !.body = WebhookBody,
                                       !.session = session, !.key = licenseKey],
                          InsertError(licenseKey, up), "received"),
                   Written(InsertDoc(store,
                                     NewLicense(licenseKey, session, now + LicenseDays)),
                           InsertError(licenseKey, up)),
                   deviceMappings)

\* POST /api/admin/create-license: a license without payment references
AdminCreateLicense(p, token, licenseKey, up) ==
    /\ variant = "server"
    /\ Free(p)
    /\ licenseKey \in GeneratedKeys
    /\ Plain
    /\ IF ~ServerAdminAuth(token)
       THEN Effect(p, Denied("create", token, "Unauthorized"), store, deviceMappings)
       ELSE Effect(p,
                   Issued([Idle EXCEPT !.op = "create", !.token = token,
                                       !.key = licenseKey],
                          InsertError(licenseKey, up), "ServerError"),
                   Written(InsertDoc(store,
                                     NewLicense(licenseKey, NULL, now + LicenseDays)),
                           InsertError(licenseKey, up)),
                   deviceMappings)

\* GET /api/admin/license/:key of server.js: the license is looked up and
\* returned
AdminLicense(p, token, licenseKey) ==
    /\ variant = "server"
    /\ Free(p)
    /\ Plain
    /\ IF ~ServerAdminAuth(token)
       THEN Effect(p, Denied("inspect", token, "Unauthorized"), store, deviceMappings)
       ELSE \E license \in FindOne({k \in DOMAIN store : k = licenseKey}, ValidatePaths) :
              LET r == [Idle EXCEPT !.op = "inspect", !.token = token,
                                    !.key = licenseKey, !.snap = license]
              IN  Effect(p, Answer(r, IF Found(license) THEN "found" ELSE "NotFound"),
                         store, deviceMappings)

\* await sendLicenseEmail(...): an error of the email provider is caught and
\* logged inside sendLicenseEmail; then the handler answers
SendLicenseEmail(p, delivered) ==
    /\ variant = "server"
    /\ proc[p].pc = "email"
    /\ Plain
    /\ Effect(p, Emailed(proc[p], delivered), store, deviceMappings)

\* handleInvoicePayment: License.findOne({ stripeCustomerId, isActive: true })
HandleInvoicePayment(p, signature, session) ==
    /\ variant = "server"
    /\ Free(p)
    /\ session \in scope.sessions
    /\ Plain
    /\ IF ~ConstructEvent(signature)
       THEN Effect(p, Rejected(signature), store, deviceMappings)
       ELSE \E license \in FindOne({k \in DOMAIN store :
                                       /\ store[k].stripeCustomerId = CustomerOf(session)
                                       /\ store[k].isActive}, InvoicePaths) :
              LET r == [Idle EXCEPT !.op = "invoice", !.sig = signature, !.body = WebhookBody,
                                    !.session = session, !.stamp = now,
                                    !.key = license.licenseKey, !.snap = license]
              IN  Effect(p,
                         IF Found(license)
                         THEN [r EXCEPT !.pc = "save"]
                         ELSE Answer(r, "received"),
                         store, deviceMappings)

\* license.expiresAt = new Date() + 30 days; await license.save(); an error is
\* caught and logged
HandleInvoicePaymentSave(p, up) ==
    LET r == proc[p]
        e == SaveError(r.snap, up)
    IN  /\ variant = "server"
        /\ r.op = "invoice"
        /\ r.pc = "save"
        /\ Plain
        /\ Effect(p, Caught(r, e, "received"),
                  Written(SaveDoc(store, r.snap,
                                  [licenseKey |-> r.key,
                                   expiresAt |-> r.stamp + LicenseDays]), e),
                  deviceMappings)

\* customer.subscription.deleted carries the subscription as canceled
EventStatus(type, status) ==
    type = "customer.subscription.deleted" => status = "canceled"

\* a handler that deactivates the license on every status but active
SubscriptionUpdatedOrOff(doc, status, periodEnd) ==
    IF status = "active"
    THEN [doc EXCEPT !.isActive = TRUE, !.expiresAt = periodEnd]
    ELSE [doc EXCEPT !.isActive = FALSE]

\* the license as handleSubscriptionUpdate changes it
SubscriptionUpdated(doc, status, periodEnd) ==
    IF status = "active"
    THEN [doc EXCEPT !.isActive = TRUE, !.expiresAt = periodEnd]
    ELSE IF status = "canceled" \/ status = "unpaid"
    THEN [doc EXCEPT !.isActive = FALSE]
    ELSE doc

\* history: what a subscription event leaves of the reason of a deactivation
Applied(status, doc, before) ==
    IF doc.isActive THEN "none"
    ELSE IF status = "canceled" \/ status = "unpaid" THEN "cancelled"
    ELSE before

\* handleSubscriptionUpdate: License.findOne({ stripeSubscriptionId })
HandleSubscriptionUpdate(p, signature, session, type, status, periodEnd) ==
    /\ variant = "server"
    /\ Free(p)
    /\ session \in scope.sessions
    /\ EventStatus(type, status)
    /\ Plain
    /\ IF ~ConstructEvent(signature)
       THEN Effect(p, Rejected(signature), store, deviceMappings)
       ELSE \E license \in FindOne({k \in DOMAIN store :
                                       store[k].stripeSubscriptionId
                                           = SubscriptionOf(session)},
                                   SubscriptionPaths) :
              LET r == [Idle EXCEPT !.op = "subscription", !.sig = signature, !.body = WebhookBody,
                                    !.session = session,
                                    !.key = license.licenseKey, !.snap = license,
                                    !.status = status,
                                    !.periodEnd = IF status = "active" THEN periodEnd
                                                  ELSE 0]
              IN  Effect(p,
                         IF Found(license) THEN [r EXCEPT !.pc = "save"]
                         ELSE Answer(r, "received"),
                         store, deviceMappings)

\* await license.save() of handleSubscriptionUpdate; an error is caught and
\* logged
HandleSubscriptionUpdateSave(p, up) ==
    LET r == proc[p]
        e == SaveError(r.snap, up)
        st == Written(SaveDoc(store, r.snap,
                              SubscriptionUpdated(r.snap, r.status, r.periodEnd)), e)
    IN  /\ variant = "server"
        /\ r.op = "subscription"
        /\ r.pc = "save"
        /\ Effect(p, Caught(r, e, "received"), st, deviceMappings)
        /\ hist' = IF e = NULL
                   THEN [hist EXCEPT ![r.key] = Applied(r.status, st[r.key], @)]
                   ELSE hist
        /\ UNCHANGED <<successes, winners>>

-----------------------------------------------------------------------------
(* POST /stripe-webhook of LicenseRoutes.js: a request without signature is    *)
(* answered 400; StripeService.handleWebhook constructs the event, and the     *)
(* request is answered 400 when it reports an error                            *)

LicenseTypes == {"monthly", "yearly"}

\* licenseType: enum ['monthly', 'yearly', 'lifetime']
PlanTypes == {"monthly", "yearly", "lifetime"}

\* a plan without duration
DurationNone(type) == 0

\* generateLicenseKey(type, type === 'yearly' ? 12 : 1).durationMonths
DurationMonths(type) ==
    IF type = "yearly" THEN 12 ELSE IF type = "lifetime" THEN 999 ELSE 1

\* checkout.session.completed: LicenseService.createLicenseForCustomer
CreateLicenseForCustomer(p, signature, session, licenseKey, type, up) ==
    /\ variant = "routes"
    /\ Free(p)
    /\ session \in scope.sessions
    /\ licenseKey \in GeneratedKeys
    /\ Plain
    /\ IF ~ConstructEvent(signature)
       THEN Effect(p, Rejected(signature), store, deviceMappings)
       ELSE Effect(p,
                   Issued([Idle EXCEPT !.op = "payment", !.sig = signature, !.body = WebhookBody,
                                       !.session = session, !.key = licenseKey],
                          InsertError(licenseKey, up), "received"),
                   Written(InsertDoc(store,
                                     NewServiceLicense(licenseKey, session, type,
                                         now + DurationMonths(type) * MonthDays)),
                           InsertError(licenseKey, up)),
                   deviceMappings)

\* POST /create-license of LicenseRoutes.js: createLicenseForCustomer(email,
\* name, type, {})
CreateLicense(p, token, licenseKey, type, up) ==
    /\ variant = "routes"
    /\ Free(p)
    /\ licenseKey \in GeneratedKeys
    /\ Plain
    /\ IF ~AdminAuth(token)
       THEN Effect(p, Denied("create", token, "Forbidden"), store, deviceMappings)
       ELSE Effect(p,
                   Issued([Idle EXCEPT !.op = "create", !.token = token,
                                       !.key = licenseKey],
                          InsertError(licenseKey, up), "ServerError"),
                   Written(InsertDoc(store,
                                     NewServiceLicense(licenseKey, NULL, type,
                                         now + DurationMonths(type) * MonthDays)),
                           InsertError(licenseKey, up)),
                   deviceMappings)

\* LicenseKeyGenerator.generateKey(type, duration, ...).expiresAt of
\* utils/generate-keys: createdAt + planDuration, monthly one month, yearly
\* twelve months, lifetime a far-future date
GenerateKeyExpiresAt(type) ==
    now + MonthDays * (IF type = "yearly" THEN 12 ELSE IF type = "lifetime" THEN 1200 ELSE 1)

\* number of keys asked of POST /generate-keys
Counts == {1, 2}

\* the request after await license.save() in the loop of POST /generate-keys
Generated(r, e) ==
    IF e # NULL
    THEN Caught(r, e, "ServerError")
    ELSE IF r.todo > 1
    THEN [r EXCEPT !.pc = "generate", !.todo = @ - 1]
    ELSE Answer([r EXCEPT !.todo = 0], "generated")

\* POST /generate-keys of admin.js: the first key is generated and saved
GenerateKeys(p, token, licenseKey, type, count, up) ==
    /\ variant = "routes"
    /\ Free(p)
    /\ licenseKey \in GeneratedKeys
    /\ Plain
    /\ IF ~AdminAuth(token)
       THEN Effect(p, Denied("generate", token, "Forbidden"), store, deviceMappings)
       ELSE Effect(p,
                   Generated([Idle EXCEPT !.op = "generate", !.token = token,
                                         !.key = licenseKey, !.type = type,
                                         !.todo = count],
                             InsertError(licenseKey, up)),
                   Written(InsertDoc(store,
                                     NewServiceLicense(licenseKey, NULL, type,
                                                       GenerateKeyExpiresAt(type))),
                           InsertError(licenseKey, up)),
                   deviceMappings)

\* GET /licenses/:key of admin.js: the license is looked up and returned
GetLicense(p, token, licenseKey) ==
    /\ variant = "routes"
    /\ Free(p)
    /\ Plain
    /\ IF ~AdminAuth(token)
       THEN Effect(p, Denied("inspect", token, "Forbidden"), store, deviceMappings)
       ELSE \E license \in FindOne({k \in DOMAIN store : k = licenseKey}, ValidatePaths) :
              LET r == [Idle EXCEPT !.op = "inspect", !.token = token,
                                    !.key = licenseKey, !.snap = license]
              IN  Effect(p, Answer(r, IF Found(license) THEN "found" ELSE "NotFound"),
                         store, deviceMappings)

\* the next key of the loop is generated and saved
GenerateKeysNext(p, licenseKey, up) ==
    LET r == proc[p]
    IN  /\ variant = "routes"
        /\ r.op = "generate"
        /\ r.pc = "generate"
        /\ licenseKey \in GeneratedKeys
        /\ Plain
        /\ Effect(p, Generated([r EXCEPT !.key = licenseKey], InsertError(licenseKey, up)),
                  Written(InsertDoc(store, NewServiceLicense(licenseKey, NULL, r.type,
                                                             GenerateKeyExpiresAt(r.type))),
                          InsertError(licenseKey, up)),
                  deviceMappings)

\* an update that sets whatever the request body carries, a plan included
UpdatesWithPlan(body, isActive, expiresAt) ==
    [f \in body \cup {"plan"} |->
        IF f = "isActive" THEN isActive ELSE IF f = "plan" THEN "lifetime" ELSE expiresAt]

\* the fields PUT /licenses/:key sets: those of isActive and expiresAt that the
\* request body carries
Updates(body, isActive, expiresAt) ==
    [f \in body |-> IF f = "isActive" THEN isActive ELSE expiresAt]

\* findOneAndUpdate({ licenseKey }, { $set: updates }) on the store
FindOneAndUpdate(st, licenseKey, updates) ==
    [st EXCEPT ![licenseKey] =
        [f \in DOMAIN @ |-> IF f \in DOMAIN updates THEN updates[f] ELSE @[f]]]

\* PUT /licenses/:key of admin.js: the update is one atomic call of the store
UpdateLicense(p, token, licenseKey, body, isActive, expiresAt, up) ==
    LET r == [Idle EXCEPT !.op = "update", !.token = token, !.key = licenseKey]
    IN  /\ variant = "routes"
        /\ Free(p)
        /\ "update" \in scope.admin
        /\ licenseKey \in scope.keys
        /\ UNCHANGED <<successes, winners>>
        /\ IF ~AdminAuth(token)
           THEN /\ Effect(p, Denied("update", token, "Forbidden"), store, deviceMappings)
                /\ UNCHANGED hist
           ELSE IF ~up
           THEN /\ Effect(p, Caught(r, "StoreUnavailable", "ServerError"),
                          store, deviceMappings)
                /\ UNCHANGED hist
           ELSE IF licenseKey \notin DOMAIN store
           THEN /\ Effect(p, Answer(r, "NotFound"), store, deviceMappings)
                /\ UNCHANGED hist
           ELSE /\ Effect(p, Answer(r, "updated"),
                          FindOneAndUpdate(store, licenseKey,
                                           Updates(body, isActive, expiresAt)),
                          deviceMappings)
                /\ hist' = IF "isActive" \in body /\ isActive
                           THEN [hist EXCEPT ![licenseKey] = "none"]
                           ELSE hist

\* DELETE /licenses/:key of admin.js: findOneAndDelete({ licenseKey }) removes
\* the record; nothing is kept of it
DeleteLicense(p, token, licenseKey, up) ==
    LET r == [Idle EXCEPT !.op = "delete", !.token = token, !.key = licenseKey]
    IN  /\ variant = "routes"
        /\ Free(p)
        /\ "delete" \in scope.admin
        /\ licenseKey \in scope.keys
        /\ IF ~AdminAuth(token)
           THEN /\ Effect(p, Denied("delete", token, "Forbidden"), store, deviceMappings)
                /\ Plain
           ELSE IF ~up
           THEN /\ Effect(p, Caught(r, "StoreUnavailable", "ServerError"),
                          store, deviceMappings)
                /\ Plain
           ELSE IF licenseKey \notin DOMAIN store
           THEN /\ Effect(p, Answer(r, "NotFound"), store, deviceMappings)
                /\ Plain
           ELSE /\ Effect(p, Answer(r, "deleted"),
                          [k \in DOMAIN store \ {licenseKey} |-> store[k]],
                          deviceMappings)
                /\ hist' = [hist EXCEPT ![licenseKey] = "none"]
                /\ successes' = [successes EXCEPT ![licenseKey] = 0]
                /\ winners' = [winners EXCEPT ![licenseKey] = {}]

\* await emailService.sendLicenseEmail(...): an error of the email provider is
\* caught inside and returned as { success: false }, which the caller ignores
EmailServiceSendLicenseEmail(p, delivered) ==
    /\ variant = "routes"
    /\ proc[p].pc = "email"
    /\ Plain
    /\ Effect(p, Emailed(proc[p], delivered), store, deviceMappings)

\* invoice.payment_succeeded: StripeService.handleInvoicePaymentSucceeded
HandleInvoicePaymentSucceeded(p, signature, session) ==
    /\ variant = "routes"
    /\ Free(p)
    /\ session \in scope.sessions
    /\ Plain
    /\ Effect(p,
              IF ~ConstructEvent(signature) THEN Rejected(signature)
              ELSE Answer([Idle EXCEPT !.op = "invoice", !.sig = signature, !.body = WebhookBody,
                                       !.session = session, !.stamp = now],
                          "received"),
              store, deviceMappings)

\* customer.subscription.updated: StripeService.handleSubscriptionUpdated
HandleSubscriptionUpdated(p, signature, session, status, periodEnd) ==
    /\ variant = "routes"
    /\ Free(p)
    /\ session \in scope.sessions
    /\ Plain
    /\ Effect(p,
              IF ~ConstructEvent(signature) THEN Rejected(signature)
              ELSE Answer([Idle EXCEPT !.op = "subscription", !.sig = signature, !.body = WebhookBody,
                                       !.session = session, !.status = status,
                                       !.periodEnd = IF status = "active"
                                                     THEN periodEnd ELSE 0],
                          "received"),
              store, deviceMappings)

\* customer.subscription.deleted: StripeService.handleSubscriptionDeleted
HandleSubscriptionDeleted(p, signature, session) ==
    /\ variant = "routes"
    /\ Free(p)
    /\ session \in scope.sessions
    /\ Plain
    /\ Effect(p,
              IF ~ConstructEvent(signature) THEN Rejected(signature)
              ELSE Answer([Idle EXCEPT !.op = "subscription", !.sig = signature, !.body = WebhookBody,
                                       !.session = session, !.status = "canceled"],
                          "received"),
              store, deviceMappings)

-----------------------------------------------------------------------------

-----------------------------------------------------------------------------
(* POST /api/device-license of server.js and POST /device-license of
   LicenseRoutes.js: LicenseService.getDeviceLicense *)

\* the deviceId of a lookup request: one of the devices, or none
LookupDevices == IF scope.lookups THEN Devices \cup {NULL} ELSE {}

\* a filter that matches the licenses bound to the device, active or not
DeviceLicenseBound(deviceId) ==
    {k \in DOMAIN store : store[k].deviceId = deviceId}

\* License.findOne({ deviceId: deviceId, isActive: true })
DeviceLicenseFilter(deviceId) ==
    {k \in DOMAIN store : store[k].deviceId = deviceId /\ store[k].isActive}

\* the lookup after findOne: no license, an expired one that is marked inactive
\* next, or hasLicense: true with the days left
Looked(deviceId, license) ==
    LET r == [Idle EXCEPT !.op = "deviceLicense", !.dev = deviceId, !.snap = license,
                          !.key = license.licenseKey]
    IN  IF ~Found(license) THEN Answer(r, "NoLicense")
        ELSE IF Expired(license) THEN [r EXCEPT !.pc = "saveExpired"]
        ELSE Answer([r EXCEPT !.daysLeft = DaysLeft(license)], "HasLicense")

\* the request arrives at server.js and the license of the device is looked up
DeviceLicense(p, deviceId) ==
    /\ variant = "server"
    /\ Free(p)
    /\ Plain
    /\ IF deviceId = NULL
       THEN Effect(p, Answer([Idle EXCEPT !.op = "deviceLicense"], "BadRequest"),
                   store, deviceMappings)
       ELSE \E license \in FindOne(DeviceLicenseFilter(deviceId),
                                   {"id", "licenseKey", "isActive", "expiresAt"}) :
              Effect(p, Looked(deviceId, license), store, deviceMappings)

\* license.isActive = false; await license.save();
\* deviceMappings.delete(deviceId); hasLicense: false
DeviceLicenseSaveExpired(p, up) ==
    LET r == proc[p]
        e == SaveError(r.snap, up)
    IN  /\ variant = "server"
        /\ r.op = "deviceLicense"
        /\ r.pc = "saveExpired"
        /\ IF e # NULL
           THEN Effect(p, Caught(r, e, "ServerError"), store, deviceMappings) /\ Plain
           ELSE /\ Effect(p, Answer(r, "NoLicense"),
                          SaveDoc(store, r.snap, [r.snap EXCEPT !.isActive = FALSE]),
                          [deviceMappings EXCEPT ![r.dev] = NULL])
                /\ hist' = [hist EXCEPT ![r.key] = "expired"]
                /\ UNCHANGED <<successes, winners>>

\* the request arrives at LicenseRoutes.js and getDeviceLicense looks the
\* license of the device up
GetDeviceLicense(p, deviceId) ==
    /\ variant = "routes"
    /\ Free(p)
    /\ Plain
    /\ IF deviceId = NULL
       THEN Effect(p, Answer([Idle EXCEPT !.op = "deviceLicense"], "BadRequest"),
                   store, deviceMappings)
       ELSE \E license \in FindOne(DeviceLicenseFilter(deviceId),
                                   {"id", "licenseKey", "isActive", "expiresAt"}) :
              Effect(p, Looked(deviceId, license), store, deviceMappings)

\* license.isActive = false; await license.save(); hasLicense: false; an
\* error is caught and answered hasLicense: false as well
GetDeviceLicenseSaveExpired(p, up) ==
    LET r == proc[p]
        e == SaveError(r.snap, up)
    IN  /\ variant = "routes"
        /\ r.op = "deviceLicense"
        /\ r.pc = "saveExpired"
        /\ IF e # NULL
           THEN Effect(p, Caught(r, e, "NoLicense"), store, deviceMappings) /\ Plain
           ELSE /\ Effect(p, Answer(r, "NoLicense"),
                          SaveDoc(store, r.snap, [r.snap EXCEPT !.isActive = FALSE]),
                          deviceMappings)
                /\ hist' = [hist EXCEPT ![r.key] = "expired"]
                /\ UNCHANGED <<successes, winners>>

-----------------------------------------------------------------------------
(* LicenseService.deactivateLicense *)

\* a deactivation that leaves the device bound
DeactivatedKeepsDevice(doc) == [doc EXCEPT !.isActive = FALSE]

\* license.isActive = false; license.deviceId = null; license.deviceName = null
Deactivated(doc) ==
    [doc EXCEPT !.isActive = FALSE, !.deviceId = NULL, !.deviceName = NULL]

\* the licenses deactivateLicense is called for
DeactivateKeys == IF "deactivate" \in scope.admin THEN Keys ELSE {}

\* deactivateLicense(licenseKey) is called: License.findOne({ licenseKey })
DeactivateLicense(p, licenseKey) ==
    /\ variant = "routes"
    /\ Free(p)
    /\ Plain
    /\ \E license \in FindOne({k \in DOMAIN store : k = licenseKey},
                              {"id", "licenseKey", "isActive", "deviceId", "deviceName"}) :
          LET r == [Idle EXCEPT !.op = "deactivate", !.key = licenseKey,
                                !.snap = license]
          IN  Effect(p,
                     IF Found(license) THEN [r EXCEPT !.pc = "save"]
                     ELSE Answer(r, "NotFound"),
                     store, deviceMappings)

\* await license.save(); success: true; an error is caught and returned
DeactivateLicenseSave(p, up) ==
    LET r == proc[p]
        e == SaveError(r.snap, up)
    IN  /\ variant = "routes"
        /\ r.op = "deactivate"
        /\ r.pc = "save"
        /\ IF e # NULL
           THEN Effect(p, Caught(r, e, "Failed"), store, deviceMappings) /\ Plain
           ELSE /\ Effect(p, Answer(r, "Deactivated"),
                          SaveDoc(store, r.snap, Deactivated(r.snap)), deviceMappings)
                /\ hist' = [hist EXCEPT ![r.key] = "deactivated"]
                /\ winners' = [winners EXCEPT ![r.key] = {}]
                /\ UNCHANGED successes

-----------------------------------------------------------------------------
(* Webhook events that neither deployment handles *)

\* event types outside the switch of server.js (which handles invoice.paid)
\* and outside the switch of StripeService.handleWebhook (which handles
\* invoice.payment_succeeded)
UnhandledEvents ==
    IF variant = "server"
    THEN {"invoice.payment_succeeded", "payment_intent.succeeded"}
    ELSE {"invoice.paid", "payment_intent.succeeded"}

\* an answer that turns the event down
NotAcknowledged(r) == Answer(r, "UnhandledEvent")

\* default: console.log(...); then res.json({received: true})
Acknowledged(r) == Answer(r, "received")

\* POST /api/webhook of server.js with an event of the default branch
UnhandledEvent(p, signature, type) ==
    /\ variant = "server"
    /\ Free(p)
    /\ Plain
    /\ Effect(p,
              IF ~ConstructEvent(signature) THEN Rejected(signature)
              ELSE Acknowledged([Idle EXCEPT !.op = "unhandled", !.sig = signature, !.body = WebhookBody,
                                             !.type = type]),
              store, deviceMappings)

\* POST /stripe-webhook of LicenseRoutes.js with an event of the default
\* branch of StripeService.handleWebhook, which is not checkout.session.completed
HandleWebhookUnhandled(p, signature, type) ==
    /\ variant = "routes"
    /\ Free(p)
    /\ Plain
    /\ Effect(p,
              IF ~ConstructEvent(signature) THEN Rejected(signature)
              ELSE Acknowledged([Idle EXCEPT !.op = "unhandled", !.sig = signature, !.body = WebhookBody,
                                             !.type = type]),
              store, deviceMappings)

-----------------------------------------------------------------------------
(* POST /api/validate-license of server.js as a function of the store, the
   device cache and the request, for a request that no other request overlaps *)

\* const deviceMappings = new Map(): the cache of a process that has just started
EmptyCache == [d \in Devices |-> NULL]

\* the store after the license the cache names for the device has been released
\* (oldLicense.deviceId = null; oldLicense.deviceName = null; save)
Released(st, dm, licenseKey, deviceId) ==
    LET existingLicenseKey == dm[deviceId]
    IN  IF /\ existingLicenseKey # NULL
           /\ existingLicenseKey # licenseKey
           /\ existingLicenseKey \in DOMAIN st
           /\ st[existingLicenseKey].deviceId = deviceId
        THEN [st EXCEPT ![existingLicenseKey] =
                [@ EXCEPT !.deviceId = NULL, !.deviceName = NULL]]
        ELSE st

\* the answer of the handler and the store it leaves
Validation(st, dm, licenseKey, deviceId) ==
    IF licenseKey \notin DOMAIN st THEN [res |-> "NotFound", store |-> st]
    ELSE IF ~st[licenseKey].isActive THEN [res |-> "Inactive", store |-> st]
    ELSE IF Expired(st[licenseKey])
    THEN [res |-> "Expired", store |-> [st EXCEPT ![licenseKey].isActive = FALSE]]
    ELSE LET released == Released(st, dm, licenseKey, deviceId)
         IN  IF DeviceLimit(st[licenseKey], deviceId)
             THEN [res |-> "DeviceConflict", store |-> released]
             ELSE [res |-> "Valid",
                   store |-> [released EXCEPT ![licenseKey] =
                                [f \in DOMAIN @ |->
                                    Activated(@, deviceId, DeviceNameOf(deviceId), now)[f]]]]

Next ==
    \/ Tick
    \/ \E p \in Procs : Return(p)
    \/ \E p \in Arriving("server"), k \in Keys, d \in Devices \cup {NULL} :
            ValidateLicense(p, k, d)
    \/ \E p \in Procs, up \in StoreUp : ValidateLicenseSaveExpired(p, up)
    \/ \E p \in Procs : ValidateLicenseFindOld(p)
    \/ \E p \in Procs, up \in StoreUp : ValidateLicenseSaveOld(p, up)
    \/ \E p \in Procs, up \in StoreUp : ValidateLicenseSave(p, up)
    \/ \E p \in Arriving("routes"), k \in Keys, d \in Devices \cup {NULL} :
            ValidateLicenseKey(p, k, d)
    \/ \E p \in Procs, up \in StoreUp : ValidateLicenseKeySaveExpired(p, up)
    \/ \E p \in Procs, up \in StoreUp : ValidateLicenseKeySave(p, up)
    \/ \E p \in Arriving("server"), sig \in Signatures, s \in scope.sessions,
          k \in scope.keys, up \in StoreUp :
            HandleSuccessfulPayment(p, sig, s, k, up)
    \/ \E p \in Arriving("server"), sig \in Signatures, s \in scope.sessions :
            HandleInvoicePayment(p, sig, s)
    \/ \E p \in Procs, up \in StoreUp : HandleInvoicePaymentSave(p, up)
    \/ \E p \in Arriving("server"), sig \in Signatures, s \in scope.sessions,
          type \in SubscriptionEvents, status \in Statuses, t \in PeriodEnds :
            HandleSubscriptionUpdate(p, sig, s, type, status, t)
    \/ \E p \in Procs, up \in StoreUp : HandleSubscriptionUpdateSave(p, up)
    \/ \E p \in Arriving("routes"), sig \in Signatures, s \in scope.sessions,
          k \in scope.keys, type \in LicenseTypes, up \in StoreUp :
            CreateLicenseForCustomer(p, sig, s, k, type, up)
    \/ \E p \in Arriving("routes"), sig \in Signatures, s \in scope.sessions :
            HandleInvoicePaymentSucceeded(p, sig, s)
    \/ \E p \in Arriving("routes"), sig \in Signatures, s \in scope.sessions,
          status \in Statuses, t \in PeriodEnds :
            HandleSubscriptionUpdated(p, sig, s, status, t)
    \/ \E p \in Arriving("routes"), sig \in Signatures, s \in scope.sessions :
            HandleSubscriptionDeleted(p, sig, s)
    \/ \E p \in Arriving("server"), token \in Tokens, k \in scope.keys, up \in StoreUp :
            AdminCreateLicense(p, token, k, up)
    \/ \E p \in Arriving("server"), token \in Tokens, k \in scope.keys :
            AdminLicense(p, token, k)
    \/ \E p \in Procs, delivered \in BOOLEAN : SendLicenseEmail(p, delivered)
    \/ \E p \in Arriving("routes"), token \in Tokens, k \in scope.keys, type \in PlanTypes,
          up \in StoreUp :
            CreateLicense(p, token, k, type, up)
    \/ \E p \in Arriving("routes"), token \in Tokens, k \in scope.keys :
            GetLicense(p, token, k)
    \/ \E p \in Procs, delivered \in BOOLEAN : EmailServiceSendLicenseEmail(p, delivered)
    \/ \E p \in Arriving("routes"), token \in Tokens, k \in scope.keys, type \in PlanTypes,
          count \in Counts, up \in StoreUp :
            GenerateKeys(p, token, k, type, count, up)
    \/ \E p \in Procs, k \in Keys, up \in StoreUp : GenerateKeysNext(p, k, up)
    \/ \E p \in Arriving("routes"), token \in Tokens, k \in scope.keys,
          body \in SUBSET {"isActive", "expiresAt"}, isActive \in BOOLEAN,
          expiresAt \in PeriodEnds, up \in StoreUp :
            UpdateLicense(p, token, k, body, isActive, expiresAt, up)
    \/ \E p \in Arriving("routes"), token \in Tokens, k \in scope.keys, up \in StoreUp :
            DeleteLicense(p, token, k, up)
    \/ \E p \in Arriving("server"), d \in LookupDevices : DeviceLicense(p, d)
    \/ \E p \in Procs, up \in StoreUp : DeviceLicenseSaveExpired(p, up)
    \/ \E p \in Arriving("routes"), d \in LookupDevices : GetDeviceLicense(p, d)
    \/ \E p \in Procs, up \in StoreUp : GetDeviceLicenseSaveExpired(p, up)
    \/ \E p \in Arriving("routes"), k \in DeactivateKeys : DeactivateLicense(p, k)
    \/ \E p \in Procs, up \in StoreUp : DeactivateLicenseSave(p, up)
    \/ \E p \in Arriving("server"), sig \in Signatures, type \in UnhandledEvents :
            UnhandledEvent(p, sig, type)
    \/ \E p \in Arriving("routes"), sig \in Signatures, type \in UnhandledEvents :
            HandleWebhookUnhandled(p, sig, type)

Spec == Init /\ [][Next]_vars

\* licenses are issued and validated, by requests that overlap, in the scope
\* Counting
InitCounting ==
    /\ variant \in Variants
    /\ scope = Counting
    /\ now = 0
    /\ store = << >>
    /\ deviceMappings = EmptyCache
    /\ proc = [p \in Procs |-> Idle]
    /\ hist = [k \in Keys |-> "none"]
    /\ successes = [k \in Keys |-> 0]
    /\ winners = [k \in Keys |-> {}]
    /\ minted = [k \in Keys |-> 0]
    /\ renewed = [k \in Keys |-> FALSE]

NextCounting ==
    \/ \E p \in Procs : Return(p)
    \/ \E p \in Arriving("server"), k \in scope.keys, d \in Devices :
            ValidateLicense(p, k, d)
    \/ \E p \in Procs : ValidateLicenseSave(p, TRUE)
    \/ \E p \in Arriving("routes"), k \in scope.keys, d \in Devices :
            ValidateLicenseKey(p, k, d)
    \/ \E p \in Procs : ValidateLicenseKeySave(p, TRUE)
    \/ \E p \in Arriving("server"), s \in scope.sessions, k \in scope.keys :
            HandleSuccessfulPayment(p, "valid", s, k, TRUE)
    \/ \E p \in Procs : SendLicenseEmail(p, TRUE)
    \/ \E p \in Arriving("routes"), s \in scope.sessions, k \in scope.keys :
            CreateLicenseForCustomer(p, "valid", s, k, "monthly", TRUE)
    \/ \E p \in Procs : EmailServiceSendLicenseEmail(p, TRUE)

SpecCounting == InitCounting /\ [][NextCounting]_vars

\* the monolith issues a license, validates it and receives subscription
\* events, by requests that overlap; the period end of an event may lie
\* after the last day of the run
InitReactivation ==
    /\ variant = "server"
    /\ scope = Concurrent
    /\ now = 0
    /\ store = << >>
    /\ deviceMappings = EmptyCache
    /\ proc = [p \in Procs |-> Idle]
    /\ hist = [k \in Keys |-> "none"]
    /\ successes = [k \in Keys |-> 0]
    /\ winners = [k \in Keys |-> {}]
    /\ minted = [k \in Keys |-> 0]
    /\ renewed = [k \in Keys |-> FALSE]

NextReactivation ==
    \/ Tick
    \/ \E p \in Procs : Return(p)
    \/ \E p \in Arriving("server"), k \in scope.keys, d \in Devices :
            ValidateLicense(p, k, d)
    \/ \E p \in Procs : ValidateLicenseSaveExpired(p, TRUE)
    \/ \E p \in Procs : ValidateLicenseSave(p, TRUE)
    \/ \E p \in Arriving("server"), s \in scope.sessions, k \in scope.keys :
            HandleSuccessfulPayment(p, "valid", s, k, TRUE)
    \/ \E p \in Procs : SendLicenseEmail(p, TRUE)
    \/ \E p \in Arriving("server"), s \in scope.sessions,
          t \in PeriodEnds \cup {MaxTime + TickDays} :
            HandleSubscriptionUpdate(p, "valid", s, "customer.subscription.updated",
                                     "active", t)
    \/ \E p \in Procs : HandleSubscriptionUpdateSave(p, TRUE)

SpecReactivation == InitReactivation /\ [][NextReactivation]_vars

-----------------------------------------------------------------------------
(* What the client of a failed validation receives *)

Failures == {"NotFound", "Inactive", "NotFoundOrInactive", "Expired", "DeviceConflict"}

\* res.json({ valid: false, error, expired, alreadyActivated }) of server.js
ServerBody(result) ==
    [error |-> CASE result = "NotFound" -> "Invalid license key"
                 [] result = "Inactive" -> "License is inactive"
                 [] result = "Expired" -> "License has expired"
                 [] OTHER -> "License already activated on another device",
     expired |-> result = "Expired",
     alreadyActivated |-> result = "DeviceConflict"]

\* res.status(400).json({ valid: false, error: result.error, expired:
\* result.expired }) of LicenseRoutes.js: alreadyActivated is not passed on
RoutesBody(result) ==
    [error |-> CASE result = "NotFoundOrInactive" -> "License key not found or inactive"
                 [] result = "Expired" -> "License has expired"
                 [] OTHER -> "License already activated on another device",
     expired |-> result = "Expired",
     alreadyActivated |-> FALSE]

\* the body of the answer of a failed validation
Body(r) == IF variant = "server" THEN ServerBody(r.res) ELSE RoutesBody(r.res)

-----------------------------------------------------------------------------
(* Properties *)

\* the failure kind a client reads from a body: the flags, else the message
Reason(body) ==
    CASE body.expired -> "Expired"
      [] body.alreadyActivated -> "DeviceConflict"
      [] body.error = "License already activated on another device" -> "DeviceConflict"
      [] body.error = "Invalid license key" -> "NotFound"
      [] body.error = "License is inactive" -> "Inactive"
      [] OTHER -> "Unknown"

\* why a validation failed
FailureKind(r) ==
    IF r.res \in {"Expired", "DeviceConflict"} THEN r.res
    ELSE IF r.known THEN "Inactive" ELSE "NotFound"

\* a validate request that has answered with result
Answered(p, result) ==
    proc[p].op = "validate" /\ proc[p].pc = "done" /\ proc[p].res = result

\* the licenses a subscription event of checkout session s refers to
LicensesOf(s) ==
    {k \in DOMAIN store : store[k].stripeSubscriptionId = SubscriptionOf(s)}

\* request p answers a subscription event with this step
AnswersEvent(p) ==
    /\ proc[p].pc # "done"
    /\ proc'[p].pc = "done"
    /\ proc'[p].op = "subscription"
    /\ proc'[p].err = NULL

\* C1: of the validate calls that read a license unbound, from different
\* devices, at most one is answered valid: true; never two of them
C1_OneBindingWins ==
    \A k \in Keys : Cardinality(winners[k]) <= 1

\* C2: a validate call that is answered DeviceConflict has written nothing,
\* neither to a license record nor to the device cache
C2_ConflictWritesNothing ==
    \A p \in Procs : Answered(p, "DeviceConflict") => ~proc[p].wrote

\* C3: no step changes the deviceId of a license that is bound to a device
\* (validate steps are the only steps that write deviceId)
C3_NoAutomaticRebinding ==
    [][\A k \in DOMAIN store \cap DOMAIN store' :
          store[k].deviceId # NULL => store'[k].deviceId = store[k].deviceId]_vars

\* C4: whatever number of times checkout.session.completed is delivered, at
\* most one license carries the subscription reference of a checkout session
C4_OneLicensePerPurchase ==
    \A s \in Sessions : Cardinality(LicensesOf(s)) <= 1

\* C5: a validate call answered Expired leaves the license inactive, and a
\* validate call that reads a license last deactivated by expiry, with no
\* reactivation since, is answered inactive and not Expired
C5_ExpiredThenInactive ==
    \A p \in Procs :
        /\ Answered(p, "Expired") => ~store[proc[p].key].isActive
        /\ proc[p].op = "validate" /\ proc[p].pc = "done" /\ proc[p].seen = "expired"
              => proc[p].res \in {"Inactive", "NotFoundOrInactive"}

C5_Witness ==
    \E p \in Procs :
        /\ proc[p].seen = "expired"
        /\ ~store[proc[p].key].isActive
        /\ Answered(p, "Inactive") \/ Answered(p, "NotFoundOrInactive")

C7_NoLostIncrement ==
    (\A p \in Procs : proc[p].op = "idle") =>
        \A k \in DOMAIN store : store[k].validationCount = successes[k]

\* C8: the step that answers a subscription event with status canceled or
\* unpaid (a deleted subscription is canceled) leaves every license of that
\* subscription inactive, with the deviceId and deviceName it had
C8_CancelDeactivates ==
    [][\A p \in Procs :
          AnswersEvent(p) /\ proc'[p].status \in {"canceled", "unpaid"} =>
              \A k \in LicensesOf(proc'[p].session) :
                  /\ ~store'[k].isActive
                  /\ store'[k].deviceId = store[k].deviceId
                  /\ store'[k].deviceName = store[k].deviceName]_vars

C10_ActiveSetsPeriodEnd ==
    [][\A p \in Procs :
          AnswersEvent(p) /\ proc'[p].status = "active" =>
              \A k \in LicensesOf(proc'[p].session) :
                  /\ store'[k].isActive
                  /\ store'[k].expiresAt = proc'[p].periodEnd]_vars

\* C11: every step that adds a license to the store adds it active and with
\* expiresAt later than the time of its creation, whatever the plan type
C11_IssuedActiveAndUnexpired ==
    [][\A k \in DOMAIN store' \ DOMAIN store :
          store'[k].isActive /\ store'[k].expiresAt > now]_vars

\* C12: no key is ever given to two distinct licenses, not even after the
\* first of them was deleted
C12_KeyNeverReused ==
    \A k \in Keys : minted[k] <= 1

\* request p executes with this step the save() of a new license
Inserts(p) ==
    /\ proc[p].pc \in {"idle", "generate"}
    /\ proc'[p] # proc[p]
    /\ proc'[p].op \in {"payment", "create", "generate"}

\* C13: the save() of a new license whose key is the key of a stored license is
\* rejected with DuplicateKey and leaves the store as it was
C13_DuplicateKeyRejected ==
    [][\A p \in Procs :
          /\ Inserts(p)
          /\ proc'[p].key \in DOMAIN store
          /\ proc'[p].err # "StoreUnavailable"
          => proc'[p].pc = "done" /\ proc'[p].err = "DuplicateKey" /\ store' = store]_vars

C13_Witness ==
    \E p \in Procs :
        /\ proc[p].op = "payment"
        /\ proc[p].pc = "done"
        /\ proc[p].err = "DuplicateKey"
        /\ proc[p].key \in DOMAIN store

\* C14: a payment-succeeded webhook whose save() met DuplicateKey goes on with
\* a new key: it never completes with the DuplicateKey as its outcome
C14_CollisionRetried ==
    \A p \in Procs :
        proc[p].op = "payment" /\ proc[p].pc = "done" => proc[p].err # "DuplicateKey"

\* C15: a webhook request (payment succeeded, renewal, status change) during
\* which a write to the store failed is not answered { received: true }
C15_WriteFailureNotAcknowledged ==
    \A p \in Procs :
        /\ proc[p].op \in {"payment", "invoice", "subscription"}
        /\ proc[p].pc = "done"
        /\ proc[p].err = "StoreUnavailable"
        => proc[p].res # "received"

\* C16: a webhook request whose signature is not accepted is answered 400
\* and has written nothing and sent no email, whatever event it carries
C16_BadSignatureRejected ==
    \A p \in Procs :
        /\ proc[p].op \in {"webhook", "payment", "invoice", "subscription"}
        /\ proc[p].sig # "valid"
        => /\ proc[p].pc = "done"
           /\ proc[p].res = "InvalidSignature"
           /\ ~proc[p].wrote
           /\ proc[p].mail = NULL

C16_Witness ==
    /\ store # << >>
    /\ \E p \in Procs : proc[p].res = "InvalidSignature" /\ proc[p].sig = "forged"

\* C17: the step in which the email of a created license fails leaves the
\* store as it is, with the license in it, active unless it was deactivated
\* meanwhile, and the request (webhook or admin create) is answered as a
\* success
C17_EmailFailureKeepsLicense ==
    [][\A p \in Procs :
          proc[p].mail = "pending" /\ proc'[p].mail = "failed" =>
              /\ store' = store
              /\ proc[p].key \in DOMAIN store'
              /\ hist[proc[p].key] = "none" => store'[proc[p].key].isActive
              /\ proc'[p].err = NULL
              /\ proc'[p].res = IF proc[p].op = "payment" THEN "received" ELSE "created"]_vars

C17_Witness ==
    \E p \in Procs :
        /\ proc[p].op = "create"
        /\ proc[p].pc = "done"
        /\ proc[p].mail = "failed"
        /\ proc[p].res = "created"
        /\ proc[p].key \in DOMAIN store
        /\ store[proc[p].key].isActive

\* C18: a payment-succeeded webhook does not wait for the email: whenever the
\* send of its license email is pending, the request has been acknowledged
C18_AcknowledgedBeforeEmail ==
    \A p \in Procs :
        proc[p].op = "payment" /\ proc[p].mail = "pending" => proc[p].res = "received"

\* C19: a step that lowers the expiresAt of a license is the step of an admin
\* edit (PUT /licenses/:key); renewals and status events never lower it
C19_ExpiryNeverDecreases ==
    [][\A k \in DOMAIN store \cap DOMAIN store' :
          store'[k].expiresAt < store[k].expiresAt =>
              \E p \in Procs : proc[p].pc = "idle" /\ proc'[p].op = "update"]_vars

\* C20: the step that answers a renewal event leaves every license with the
\* customer reference of the event expiring one renewal period of its plan
\* after the time the event was processed, whatever its expiresAt was
C20_RenewalSetsExpiry ==
    [][\A p \in Procs :
          /\ proc[p].pc # "done"
          /\ proc'[p].pc = "done"
          /\ proc'[p].op = "invoice"
          /\ proc'[p].err = NULL
          => \A k \in DOMAIN store :
                store[k].stripeCustomerId = CustomerOf(proc'[p].session) =>
                    store'[k].expiresAt
                        = proc'[p].stamp + DurationMonths(store[k].plan) * MonthDays]_vars

\* C21: the step that processes the renewal event for a license that a
\* delivery of the event has extended before leaves its expiresAt as it is
C21_RenewIdempotent ==
    [][\A p \in Procs :
          /\ proc[p].op = "invoice"
          /\ proc[p].pc = "save"
          /\ proc'[p].pc = "done"
          /\ renewed[proc[p].key]
          => store'[proc[p].key].expiresAt = store[proc[p].key].expiresAt]_vars

\* C22: the step that answers valid: true to a device leaves the license bound
\* to that device, with lastValidated the time of the validation and
\* validationCount one more than before, and answers daysLeft = expiresAt - now
C22_ValidateEffects ==
    [][\A p \in Procs :
          /\ proc[p].pc # "done"
          /\ proc'[p].op = "validate"
          /\ proc'[p].pc = "done"
          /\ proc'[p].res = "Valid"
          /\ proc'[p].dev # NULL
          => LET k == proc'[p].key
             IN  /\ store'[k].deviceId = proc'[p].dev
                 /\ store'[k].lastValidated = proc'[p].stamp
                 /\ store'[k].validationCount = store[k].validationCount + 1
                 /\ proc'[p].daysLeft = store'[k].expiresAt - now]_vars

\* C23: an admin request (manual issue, key generation, inspect, update,
\* delete) that does not carry the configured admin secret is turned away
\* and has written nothing, also when no secret is configured
C23_AdminNeedsSecret ==
    \A p \in Procs :
        /\ proc[p].op \in {"create", "generate", "inspect", "update", "delete"}
        /\ ~(proc[p].token # NULL /\ proc[p].token = scope.secret)
        => /\ proc[p].pc = "done"
           /\ proc[p].res \in {"Unauthorized", "Forbidden"}
           /\ ~proc[p].wrote

\* C24: the answer of a failed validation tells which of NotFound, Inactive,
\* Expired and DeviceConflict it was
C24_FailureReasonTold ==
    \A p \in Procs :
        proc[p].op = "validate" /\ proc[p].pc = "done" /\ proc[p].res \in Failures
            => Reason(Body(proc[p])) = FailureKind(proc[p])

\* C25: a device-license lookup that is answered hasLicense: true for a device
\* found a license that is bound to exactly that device, is active and is not
\* expired; in every other case the answer is hasLicense: false
C25_HasLicenseOnlyIfBound ==
    \A p \in Procs :
        proc[p].op = "deviceLicense" /\ proc[p].pc = "done" /\ proc[p].res = "HasLicense"
            => \E k \in DOMAIN store :
                  /\ store[k].deviceId = proc[p].dev
                  /\ store[k].isActive
                  /\ ~Expired(store[k])

\* a lookup is answered hasLicense: true
C25_Witness ==
    \E p \in Procs :
        /\ proc[p].op = "deviceLicense"
        /\ proc[p].pc = "done"
        /\ proc[p].res = "HasLicense"
        /\ proc[p].daysLeft > 0

\* C26: the step with which deactivateLicense returns success leaves the
\* license inactive with deviceId and deviceName cleared and every other field
\* (key, plan, customer references, expiresAt, validationCount) as it was; it
\* returns not-found exactly for a key without license, and then, as after a
\* failed write, no license has changed
C26_DeactivateEffects ==
    [][\A p \in Procs :
          proc'[p].op = "deactivate" /\ proc'[p].pc = "done" /\ proc[p].pc # "done"
            => LET k == proc'[p].key
               IN  /\ proc'[p].res = "NotFound" <=> k \notin DOMAIN store
                   /\ IF proc'[p].res = "Deactivated"
                      THEN /\ k \in DOMAIN store'
                           /\ store' = [store EXCEPT ![k] =
                                          [@ EXCEPT !.isActive = FALSE,
                                                    !.deviceId = NULL,
                                                    !.deviceName = NULL]]
                      ELSE store' = store]_vars

\* a license bound to a device and validated has been deactivated
C26_Witness ==
    \E p \in Procs :
        /\ proc[p].op = "deactivate"
        /\ proc[p].pc = "done"
        /\ proc[p].res = "Deactivated"
        /\ proc[p].snap.isActive
        /\ proc[p].snap.deviceId # NULL
        /\ store[proc[p].key].deviceId = NULL
        /\ store[proc[p].key].validationCount > 0

\* C27: the step that answers a correctly signed webhook event of a kind the
\* deployment does not handle acknowledges it (received: true) and leaves every
\* license record and the device cache as they were
C27_UnhandledEventIsNoOp ==
    [][\A p \in Procs :
          proc'[p].op = "unhandled" /\ proc'[p].pc = "done" /\ proc[p].pc # "done"
            => /\ proc'[p].res = "received"
               /\ store' = store
               /\ deviceMappings' = deviceMappings]_vars

\* an unhandled event is answered while a license exists and a device is cached
C27_Witness ==
    \E p \in Procs :
        /\ proc[p].op = "unhandled"
        /\ proc[p].pc = "done"
        /\ proc[p].sig = "valid"
        /\ proc[p].type = "payment_intent.succeeded"
        /\ \E k \in DOMAIN store : store[k].deviceId # NULL

\* the customer of a renewal event, or the subscription of a status event,
\* is the reference of no license
Unmatched(r) ==
    IF r.op = "invoice"
    THEN \A k \in DOMAIN store : store[k].stripeCustomerId # CustomerOf(r.session)
    ELSE \A k \in DOMAIN store : store[k].stripeSubscriptionId # SubscriptionOf(r.session)

\* C28: a renewal or status-change event whose customer or subscription
\* reference matches no license is answered with a not-found outcome, without
\* an error and without a write to the store
C28_UnmatchedEventNotFound ==
    \A p \in Procs :
        /\ proc[p].op \in {"invoice", "subscription"}
        /\ proc[p].pc = "done"
        /\ Unmatched(proc[p])
        => /\ proc[p].res = "NotFound"
           /\ proc[p].err = NULL
           /\ ~proc[p].wrote

\* C29: in every state, for every entry d -> k of deviceMappings the license
\* with key k exists and has deviceId = d
C29_CacheReconcilable ==
    \A d \in Devices :
        deviceMappings[d] # NULL
            => /\ deviceMappings[d] \in DOMAIN store
               /\ store[deviceMappings[d]].deviceId = d

\* C30: in every state, for every request, validate answers the same and
\* leaves the same store whether it runs with the device cache of that state or
\* with the empty cache of a process that has just started
C30_CacheNotAuthoritative ==
    \A k \in Keys, d \in Devices :
        Validation(store, deviceMappings, k, d) = Validation(store, EmptyCache, k, d)

Touches(p, k) ==
    /\ proc[p].pc # "done"
    /\ proc'[p].pc = "done"
    /\ proc'[p].op \in {"validate", "deviceLicense", "invoice", "subscription"}
    /\ proc'[p].key = k
    /\ proc'[p].res # "BadRequest"
    /\ proc'[p].err = NULL

\* C32: an operation that touches a license in the Active-Expired state
\* (isActive and now >= expiresAt) leaves it inactive
C32_ActiveExpiredCollapses ==
    [][\A p \in Procs : \A k \in DOMAIN store \cap DOMAIN store' :
          Touches(p, k) /\ store[k].isActive /\ ExpiredFrom(store[k])
              => ~store'[k].isActive]_vars

\* C33: no step changes the key, the plan type or createdAt of a license that
\* exists before and after it
C33_KeyPlanCreatedAtImmutable ==
    [][\A k \in DOMAIN store \cap DOMAIN store' :
          store'[k].id = store[k].id
              => /\ store'[k].licenseKey = store[k].licenseKey
                 /\ store'[k].plan = store[k].plan
                 /\ store'[k].createdAt = store[k].createdAt]_vars

\* an admin update of a license that was created on an earlier day and has been
\* validated is answered
C33_Witness ==
    \E p \in Procs :
        /\ proc[p].op = "update"
        /\ proc[p].pc = "done"
        /\ proc[p].res = "updated"
        /\ proc[p].wrote
        /\ store[proc[p].key].createdAt < now
        /\ store[proc[p].key].validationCount > 0

\* C34: no step lowers the validationCount of a license, and the only step
\* that changes it is the one that answers a validate call for that license
\* with valid: true; a failed validate call and a webhook event leave it as it is
C34_CountMonotone ==
    [][\A k \in DOMAIN store \cap DOMAIN store' :
          store'[k].id = store[k].id
              => /\ store'[k].validationCount >= store[k].validationCount
                 /\ store'[k].validationCount # store[k].validationCount
                       => \E p \in Procs : /\ proc[p].op = "validate"
                                           /\ proc[p].pc = "save"
                                           /\ proc[p].key = k
                                           /\ proc'[p].res = "Valid"]_vars

\* C35: a validate call that read the license as expired and completes after a
\* status event with status active and a future period end has been applied
\* leaves the license active, with the expiresAt of the provider
C35_ReactivationKept ==
    [][\A p \in Procs :
          /\ proc[p].op = "validate"
          /\ proc[p].pc = "saveExpired"
          /\ proc'[p].pc = "done"
          /\ proc[p].key \in DOMAIN store
          /\ store[proc[p].key].isActive
          /\ store[proc[p].key].expiresAt > now
          /\ \A q \in Procs : proc[q].op # "subscription"
          => /\ store'[proc[p].key].isActive
             /\ store'[proc[p].key].expiresAt = store[proc[p].key].expiresAt]_vars

\* the validate call in slot p fetched a license that was inactive and expired
\* (LicenseService fetches active licenses only and finds none)
ReadInactiveExpired(p) ==
    LET r == proc[p]
    IN  /\ r.known
        /\ IF Found(r.snap)
           THEN ~r.snap.isActive /\ r.at > r.snap.expiresAt
           ELSE /\ r.key \in DOMAIN store
                /\ ~store[r.key].isActive
                /\ r.at > store[r.key].expiresAt

\* C36: validate checks NotFound, Inactive, Expired, DeviceConflict in this
\* order: a call from one device that fetched an active, expired license bound
\* to another device is answered Expired and leaves the license inactive, and a
\* call that fetched an inactive and expired license is answered inactive and
\* has written nothing
C36_ChecksInOrder ==
    \A p \in Procs :
        proc[p].op = "validate" /\ proc[p].pc = "done" /\ proc[p].err = NULL
            => /\ /\ Found(proc[p].snap)
                  /\ proc[p].snap.isActive
                  /\ proc[p].at > proc[p].snap.expiresAt
                  /\ proc[p].snap.deviceId \notin {NULL, proc[p].dev}
                  => /\ proc[p].res = "Expired"
                     /\ ~store[proc[p].key].isActive
               /\ ReadInactiveExpired(p)
                  => /\ proc[p].res \in {"Inactive", "NotFoundOrInactive"}
                     /\ ~proc[p].wrote

\* a license bound to one device and expired has been validated from another
\* device
C36_Witness ==
    \E p \in Procs :
        /\ proc[p].op = "validate"
        /\ proc[p].pc = "done"
        /\ proc[p].res = "Expired"
        /\ proc[p].dev # NULL
        /\ proc[p].snap.deviceId \notin {NULL, proc[p].dev}
        /\ ~store[proc[p].key].isActive

\* C37: in every state, for every device there is at most one active license
\* whose deviceId is that device
C37_OneLicensePerDevice ==
    \A d \in Devices :
        Cardinality({k \in DOMAIN store : store[k].isActive /\ store[k].deviceId = d}) <= 1

\* C38: a step of a renewal (invoice paid) event changes at most the expiresAt
\* of one license, which is active; isActive, deviceId, deviceName and
\* validationCount of every license stay as they are
C38_RenewalFrame ==
    [][\A p \in Procs :
          proc'[p].op = "invoice" /\ proc'[p] # proc[p]
            => /\ DOMAIN store' = DOMAIN store
               /\ Cardinality({k \in DOMAIN store : store'[k] # store[k]}) <= 1
               /\ \A k \in DOMAIN store :
                     /\ store'[k] = [store[k] EXCEPT !.expiresAt = store'[k].expiresAt]
                     /\ store'[k] # store[k] => store[k].isActive]_vars

\* C39: a step of a subscription status event whose status is none of active,
\* canceled, unpaid leaves isActive and expiresAt of every license of that
\* subscription as they are
C39_OtherStatusChangesNothing ==
    [][\A p \in Procs :
          /\ proc'[p].op = "subscription"
          /\ proc'[p] # proc[p]
          /\ proc'[p].status \notin {"active", "canceled", "unpaid"}
          => \A k \in LicensesOf(proc'[p].session) :
                /\ k \in DOMAIN store'
                /\ store'[k].isActive = store[k].isActive
                /\ store'[k].expiresAt = store[k].expiresAt]_vars

\* a past_due event for the subscription of an active license has been handled
C39_Witness ==
    \E p \in Procs :
        /\ proc[p].op = "subscription"
        /\ proc[p].pc = "done"
        /\ proc[p].status = "past_due"
        /\ proc[p].sig = "valid"
        /\ \E k \in LicensesOf(proc[p].session) : store[k].isActive

C11_Witness ==
    /\ \E k \in DOMAIN store : store[k].plan = "lifetime"
    /\ \E k \in DOMAIN store : store[k].plan = "yearly"
    /\ \A k \in DOMAIN store : store[k].isActive /\ store[k].expiresAt > now

====
